---- MODULE Spec2Model ----
(***************************************************************************)
(* Model of src/ereader.py: the PDFReader window (class PDFReader), its    *)
(* start-up (load_pdf / open_pdf_dialog) and its event handlers.           *)
(*                                                                         *)
(* The Tk main loop runs one handler at a time to completion, so every     *)
(* handler is one atomic action.  The external libraries are modelled by   *)
(* what the program observes of them: fitz.open either raises or yields a  *)
(* document with some page count, the first render either raises or        *)
(* paints, the entry widget yields a string, and the "-fullscreen" window  *)
(* attribute is a boolean.                                                 *)
(***************************************************************************)
EXTENDS Integers, Sequences, FiniteSets, TLC

\* ---------------------------------------------------------------- bounds
\* Largest page count a document opened in the model can have.
MaxPages == 5

\* Longest run of one repeated handler that the history variable counts.
MaxRun == 30

\* Longest run of a paging, fullscreen or Escape handler that is counted.
MaxSteps == 8

\* ------------------------------------------------------------ state
VARIABLES
    pc,                  \* "start" (inside __init__), "ready" (mainloop), "terminated"
    pdf_doc,             \* self.pdf_doc: "None" or "Document"
    current_page_index,  \* self.current_page_index
    total_pages,         \* self.total_pages
    zoom_level,          \* self.zoom_level
    fullscreen,          \* the window attribute "-fullscreen"
    title,               \* window title: DefaultTitle or <<page, total, zoom>>
    canvas,              \* frame on the canvas: <<>> or <<page_index, zoom>>
    placed,              \* where the frame was drawn: canvas size, frame size, offset
    dialog,              \* message box shown by the latest handler, or "none"
    painted,             \* whether the latest handler drew a frame
    last,                \* history: the latest handler, its input, the state before it
    run                  \* history: how often the latest handler ran in a row, and from where

vars == <<pc, pdf_doc, current_page_index, total_pages, zoom_level,
          fullscreen, title, canvas, placed, dialog, painted, last, run>>

\* ------------------------------------------------------------ helpers
Min(a, b) == IF a <= b THEN a ELSE b
Max(a, b) == IF a >= b THEN a ELSE b

\* self.title("Distraction-Free PDF Reader") : the title without page data.
DefaultTitle == <<>>

\* f"... - Page {page_index + 1}/{self.total_pages} - Zoom: {self.zoom_level}%"
\* kept as the three numbers the format string interpolates, in order.
PageTitle(page_index, pages, zoom) == <<page_index + 1, pages, zoom>>

\* Truth value of self.pdf_doc: None is false, and a fitz Document is a
\* sized object, so a document of length 0 is false as well.
Truthy(doc, pages) == doc # "None" /\ pages # 0

\* ----------------------------------------------- int(self.page_entry.get())
Digits == <<"0", "1", "2", "3", "4", "5", "6", "7", "8", "9">>

IsDigit(c) == \E d \in 1..10 : Digits[d] = c

DigitVal(c) == (CHOOSE d \in 1..10 : Digits[d] = c) - 1

RECURSIVE LStrip(_)
LStrip(s) == IF s # <<>> /\ Head(s) = " " THEN LStrip(Tail(s)) ELSE s

RECURSIVE RStrip(_)
RStrip(s) == IF s # <<>> /\ s[Len(s)] = " " THEN RStrip(SubSeq(s, 1, Len(s) - 1)) ELSE s

\* digits, with single underscores allowed between two digits
WellFormed(b) ==
    /\ b # <<>>
    /\ IsDigit(b[1])
    /\ IsDigit(b[Len(b)])
    /\ \A i \in 1..Len(b) : IsDigit(b[i]) \/ b[i] = "_"
    /\ \A i \in 1..(Len(b) - 1) : ~(b[i] = "_" /\ b[i + 1] = "_")

RECURSIVE Magnitude(_, _)
Magnitude(b, acc) ==
    IF b = <<>> THEN acc
    ELSE IF Head(b) = "_" THEN Magnitude(Tail(b), acc)
    ELSE Magnitude(Tail(b), 10 * acc + DigitVal(Head(b)))

\* Python's int(str): surrounding blanks are stripped, one sign is allowed,
\* anything else raises ValueError (ok = FALSE).
ParseInt(s) ==
    LET t    == RStrip(LStrip(s))
        neg  == t # <<>> /\ Head(t) = "-"
        sign == t # <<>> /\ Head(t) \in {"+", "-"}
        body == IF sign THEN Tail(t) ELSE t
    IN  IF WellFormed(body)
        THEN [ok |-> TRUE,
              val |-> IF neg THEN 0 - Magnitude(body, 0) ELSE Magnitude(body, 0)]
        ELSE [ok |-> FALSE, val |-> 0]

\* str(k) for k >= 0
RECURSIVE DecStr(_)
DecStr(k) == IF k < 10 THEN <<Digits[k + 1]>>
             ELSE DecStr(k \div 10) \o <<Digits[(k % 10) + 1]>>

\* What the user may have typed into the page entry when pressing Return.
Inputs ==
    {DecStr(k) : k \in 0..(MaxPages + 1)} \cup
    { <<>>, <<"a", "b", "c">>, <<"-", "1">>, <<"+", "2">>, <<" ", "1", " ">>,
      <<"1", "_", "0">>, <<"1", ".", "5">>, <<"0", "2">>, <<"-">>, <<"_", "1">> }

\* ------------------------------------------------------------ geometry
\* canvas.winfo_width() / winfo_height(): 1 x 1 while __init__ is still
\* running (the window is not mapped yet), afterwards the canvas of the
\* "800x600" window above the controls, or of the whole screen in fullscreen.
UnmappedSize == <<1, 1>>
WindowSize == <<800, 561>>
ScreenSize == <<1920, 1041>>

CanvasSize(where, fs) ==
    IF where = "start" THEN UnmappedSize
    ELSE IF fs THEN ScreenSize ELSE WindowSize

\* size of a page at 100%, in pixels (a US Letter page)
PageSize == <<612, 792>>

\* pix.width / pix.height of page.get_pixmap(matrix=Matrix(zoom/100, zoom/100)):
\* the scaled page, rounded up to whole pixels.
Scale(len, zoom) == (len * zoom + 99) \div 100

FrameSize(zoom) == <<Scale(PageSize[1], zoom), Scale(PageSize[2], zoom)>>

\* division by 2 that rounds toward zero
TruncHalf(d) == IF d >= 0 THEN d \div 2 ELSE 0 - ((0 - d) \div 2)

\* (canvas - pix) // 2 : Python's floor division, which is \div
FloorHalf(d) == d \div 2

\* x_offset, y_offset and the create_image call
Place(surface, frame) ==
    [surface |-> surface,
     frame   |-> frame,
     at      |-> <<FloorHalf(surface[1] - frame[1]), FloorHalf(surface[2] - frame[2])>>]

NotPlaced == [surface |-> <<0, 0>>, frame |-> <<0, 0>>, at |-> <<0, 0>>]

\* ------------------------------------------------------------ history
Snapshot == [idx    |-> current_page_index,
             zoom   |-> zoom_level,
             fs     |-> fullscreen,
             title  |-> title,
             canvas |-> canvas,
             placed |-> placed,
             dialog |-> dialog,
             pc     |-> pc]

NoSnap == [idx |-> 0, zoom |-> 0, fs |-> FALSE, title |-> <<>>,
           canvas |-> <<>>, placed |-> NotPlaced, dialog |-> "none", pc |-> "none"]

\* the part of the state a run of one handler starts from
RunStart == [idx |-> current_page_index, zoom |-> zoom_level, fs |-> fullscreen]

NoRun == [op |-> "none", k |-> 0, fresh |-> FALSE,
          start |-> [idx |-> 0, zoom |-> 0, fs |-> FALSE]]

\* handlers whose repetition is counted; a run of zoom steps is counted when it
\* starts at the default level of 100
Counted == {"next", "prev", "zoom_in", "zoom_out", "toggle", "escape"}

RunCap(op) == IF op \in {"zoom_in", "zoom_out"} THEN MaxRun ELSE MaxSteps

Record(op, raw, index) ==
    /\ last' = [op |-> op, raw |-> raw, index |-> index, pre |-> Snapshot]
    /\ run' = IF op \notin Counted THEN NoRun
              ELSE IF run.op = op
                   THEN IF run.k < RunCap(op) THEN [run EXCEPT !.k = run.k + 1] ELSE NoRun
                   ELSE IF op \in {"zoom_in", "zoom_out"} /\ zoom_level # 100 THEN NoRun
                   ELSE [op |-> op, k |-> 1, fresh |-> (last.op = "open"), start |-> RunStart]

\* ------------------------------------------------------------ program
Init ==
    /\ pc = "start"
    /\ pdf_doc = "None"
    /\ current_page_index = 0
    /\ total_pages = 0
    /\ zoom_level = 100
    /\ fullscreen = FALSE
    /\ title = DefaultTitle
    /\ canvas = <<>>
    /\ placed = NotPlaced
    /\ dialog = "none"
    /\ painted = FALSE
    /\ last = [op |-> "none", raw |-> <<>>, index |-> 0, pre |-> NoSnap]
    /\ run = NoRun

\* show_page that titles the window after the stored index, not its argument
show_page_titles_current(page_index) ==
    IF ~Truthy(pdf_doc', total_pages')
    THEN /\ title' = title
         /\ canvas' = canvas
         /\ placed' = placed
         /\ painted' = FALSE
    ELSE IF page_index < 0 \/ page_index >= total_pages'
    THEN /\ title' = title
         /\ canvas' = canvas
         /\ placed' = placed
         /\ painted' = FALSE
    ELSE /\ canvas' = <<page_index, zoom_level'>>
         /\ placed' = Place(CanvasSize(pc, fullscreen'), FrameSize(zoom_level'))
         /\ title' = PageTitle(current_page_index', total_pages', zoom_level')
         /\ painted' = TRUE

\* show_page without the range check
show_page_unchecked(page_index) ==
    IF ~Truthy(pdf_doc', total_pages')
    THEN /\ title' = title
         /\ canvas' = canvas
         /\ placed' = placed
         /\ painted' = FALSE
    ELSE /\ canvas' = <<page_index, zoom_level'>>
         /\ placed' = Place(CanvasSize(pc, fullscreen'), FrameSize(zoom_level'))
         /\ title' = PageTitle(page_index, total_pages', zoom_level')
         /\ painted' = TRUE

\* show_page(page_index), called as the last statement of a handler: it reads
\* the fields the handler has just assigned (the primed variables).
show_page(page_index) ==
    IF ~Truthy(pdf_doc', total_pages')
    THEN /\ title' = title
         /\ canvas' = canvas
         /\ placed' = placed
         /\ painted' = FALSE
    ELSE IF page_index < 0 \/ page_index >= total_pages'
    THEN /\ title' = title
         /\ canvas' = canvas
         /\ placed' = placed
         /\ painted' = FALSE
    ELSE /\ canvas' = <<page_index, zoom_level'>>
         /\ placed' = Place(CanvasSize(pc, fullscreen'), FrameSize(zoom_level'))
         /\ title' = PageTitle(page_index, total_pages', zoom_level')
         /\ painted' = TRUE

\* load_pdf that reports the failure and leaves the window open
load_pdf_keeps_running(opens, pages, renders) ==
    /\ zoom_level' = zoom_level
    /\ fullscreen' = fullscreen
    /\ IF ~opens
       THEN /\ UNCHANGED <<pdf_doc, current_page_index, total_pages, title, canvas, placed, painted>>
            /\ dialog' = "Error"
            /\ pc' = "ready"
       ELSE /\ pdf_doc' = "Document"
            /\ current_page_index' = 0
            /\ total_pages' = pages
            /\ IF Truthy(pdf_doc', total_pages') /\ ~renders
               THEN /\ UNCHANGED <<title, canvas, placed, painted>>
                    /\ dialog' = "Error"
                    /\ pc' = "ready"
               ELSE /\ show_page(current_page_index')
                    /\ dialog' = "none"
                    /\ pc' = "ready"

\* load_pdf that closes the window on a failure without reporting it
load_pdf_silent(opens, pages, renders) ==
    /\ zoom_level' = zoom_level
    /\ fullscreen' = fullscreen
    /\ IF ~opens
       THEN /\ UNCHANGED <<pdf_doc, current_page_index, total_pages, title, canvas, placed, painted>>
            /\ dialog' = "none"
            /\ pc' = "terminated"
       ELSE /\ pdf_doc' = "Document"
            /\ current_page_index' = 0
            /\ total_pages' = pages
            /\ IF Truthy(pdf_doc', total_pages') /\ ~renders
               THEN /\ UNCHANGED <<title, canvas, placed, painted>>
                    /\ dialog' = "none"
                    /\ pc' = "terminated"
               ELSE /\ show_page(current_page_index')
                    /\ dialog' = "none"
                    /\ pc' = "ready"

\* load_pdf(pdf_file).  opens: fitz.open returns; pages: len(self.pdf_doc);
\* renders: the first get_pixmap / PhotoImage does not raise.
load_pdf(opens, pages, renders) ==
    /\ zoom_level' = zoom_level
    /\ fullscreen' = fullscreen
    /\ IF ~opens
       THEN /\ UNCHANGED <<pdf_doc, current_page_index, total_pages, title, canvas, placed, painted>>
            /\ dialog' = "Error"
            /\ pc' = "terminated"
       ELSE /\ pdf_doc' = "Document"
            /\ current_page_index' = 0
            /\ total_pages' = pages
            /\ IF Truthy(pdf_doc', total_pages') /\ ~renders
               THEN /\ UNCHANGED <<title, canvas, placed, painted>>
                    /\ dialog' = "Error"
                    /\ pc' = "terminated"
               ELSE /\ show_page(current_page_index')
                    /\ dialog' = "none"
                    /\ pc' = "ready"

\* open_pdf_dialog(): chosen = FALSE when the user cancels the file dialog.
open_pdf_dialog(chosen, opens, pages, renders) ==
    IF chosen
    THEN load_pdf(opens, pages, renders)
    ELSE /\ UNCHANGED <<pdf_doc, current_page_index, total_pages, zoom_level,
                        fullscreen, title, canvas, placed, painted>>
         /\ dialog' = "none"
         /\ pc' = "terminated"

\* show_next_page that wraps to the first page after the last one
show_next_page_wrap ==
    /\ UNCHANGED <<pc, pdf_doc, total_pages, zoom_level, fullscreen>>
    /\ dialog' = "none"
    /\ IF current_page_index < total_pages - 1
       THEN /\ current_page_index' = current_page_index + 1
            /\ show_page(current_page_index')
       ELSE /\ current_page_index' = 0
            /\ show_page(current_page_index')

\* show_next_page whose bound is one too large
show_next_page_overrun ==
    /\ UNCHANGED <<pc, pdf_doc, total_pages, zoom_level, fullscreen>>
    /\ dialog' = "none"
    /\ IF current_page_index < total_pages
       THEN /\ current_page_index' = current_page_index + 1
            /\ show_page(current_page_index')
       ELSE /\ UNCHANGED <<current_page_index, title, canvas, placed>>
            /\ painted' = FALSE

show_next_page ==
    /\ UNCHANGED <<pc, pdf_doc, total_pages, zoom_level, fullscreen>>
    /\ dialog' = "none"
    /\ IF current_page_index < total_pages - 1
       THEN /\ current_page_index' = current_page_index + 1
            /\ show_page(current_page_index')
       ELSE /\ UNCHANGED <<current_page_index, title, canvas, placed>>
            /\ painted' = FALSE

show_previous_page ==
    /\ UNCHANGED <<pc, pdf_doc, total_pages, zoom_level, fullscreen>>
    /\ dialog' = "none"
    /\ IF current_page_index > 0
       THEN /\ current_page_index' = current_page_index - 1
            /\ show_page(current_page_index')
       ELSE /\ UNCHANGED <<current_page_index, title, canvas, placed>>
            /\ painted' = FALSE

\* go_to_page that accepts one page past the end
go_to_page_inclusive(raw) ==
    /\ UNCHANGED <<pc, pdf_doc, total_pages, zoom_level, fullscreen>>
    /\ LET parsed == ParseInt(raw)
           page_num == parsed.val - 1
       IN  IF ~parsed.ok
           THEN /\ dialog' = "Invalid Input"
                /\ UNCHANGED <<current_page_index, title, canvas, placed>>
                /\ painted' = FALSE
           ELSE IF 0 <= page_num /\ page_num <= total_pages
           THEN /\ current_page_index' = page_num
                /\ show_page(current_page_index')
                /\ dialog' = "none"
           ELSE /\ dialog' = "Invalid Page"
                /\ UNCHANGED <<current_page_index, title, canvas, placed>>
                /\ painted' = FALSE

\* go_to_page that closes the window on an input that is not a number
go_to_page_fatal(raw) ==
    /\ UNCHANGED <<pdf_doc, total_pages, zoom_level, fullscreen>>
    /\ LET parsed == ParseInt(raw)
           page_num == parsed.val - 1
       IN  IF ~parsed.ok
           THEN /\ dialog' = "Invalid Input"
                /\ UNCHANGED <<current_page_index, title, canvas, placed>>
                /\ painted' = FALSE
                /\ pc' = "terminated"
           ELSE IF 0 <= page_num /\ page_num < total_pages
           THEN /\ current_page_index' = page_num
                /\ show_page(current_page_index')
                /\ dialog' = "none"
                /\ pc' = pc
           ELSE /\ dialog' = "Invalid Page"
                /\ UNCHANGED <<current_page_index, title, canvas, placed>>
                /\ painted' = FALSE
                /\ pc' = pc

\* go_to_page that takes the input as a 0-based index
go_to_page_zero_based(raw) ==
    /\ UNCHANGED <<pc, pdf_doc, total_pages, zoom_level, fullscreen>>
    /\ LET parsed == ParseInt(raw)
           page_num == parsed.val
       IN  IF ~parsed.ok
           THEN /\ dialog' = "Invalid Input"
                /\ UNCHANGED <<current_page_index, title, canvas, placed>>
                /\ painted' = FALSE
           ELSE IF 0 <= page_num /\ page_num < total_pages
           THEN /\ current_page_index' = page_num
                /\ show_page(current_page_index')
                /\ dialog' = "none"
           ELSE /\ dialog' = "Invalid Page"
                /\ UNCHANGED <<current_page_index, title, canvas, placed>>
                /\ painted' = FALSE

go_to_page(raw) ==
    /\ UNCHANGED <<pc, pdf_doc, total_pages, zoom_level, fullscreen>>
    /\ LET parsed == ParseInt(raw)
           page_num == parsed.val - 1
       IN  IF ~parsed.ok
           THEN /\ dialog' = "Invalid Input"
                /\ UNCHANGED <<current_page_index, title, canvas, placed>>
                /\ painted' = FALSE
           ELSE IF 0 <= page_num /\ page_num < total_pages
           THEN /\ current_page_index' = page_num
                /\ show_page(current_page_index')
                /\ dialog' = "none"
           ELSE /\ dialog' = "Invalid Page"
                /\ UNCHANGED <<current_page_index, title, canvas, placed>>
                /\ painted' = FALSE

\* toggle_fullscreen that also puts the zoom level back to its default
toggle_fullscreen_resets_zoom ==
    /\ fullscreen' = ~fullscreen
    /\ zoom_level' = 100
    /\ dialog' = "none"
    /\ painted' = FALSE
    /\ UNCHANGED <<pc, pdf_doc, current_page_index, total_pages, title, canvas, placed>>

\* toggle_fullscreen that only ever enters fullscreen
toggle_fullscreen_enter ==
    /\ fullscreen' = TRUE
    /\ dialog' = "none"
    /\ painted' = FALSE
    /\ UNCHANGED <<pc, pdf_doc, current_page_index, total_pages, zoom_level, title, canvas, placed>>

toggle_fullscreen ==
    /\ fullscreen' = ~fullscreen
    /\ dialog' = "none"
    /\ painted' = FALSE
    /\ UNCHANGED <<pc, pdf_doc, current_page_index, total_pages, zoom_level, title, canvas, placed>>

\* exit_fullscreen that closes the window whatever the window mode
exit_fullscreen_closes ==
    /\ dialog' = "none"
    /\ painted' = FALSE
    /\ UNCHANGED <<pdf_doc, current_page_index, total_pages, zoom_level, title, canvas, placed>>
    /\ fullscreen' = fullscreen
    /\ pc' = "terminated"

exit_fullscreen ==
    /\ dialog' = "none"
    /\ painted' = FALSE
    /\ UNCHANGED <<pdf_doc, current_page_index, total_pages, zoom_level, title, canvas, placed>>
    /\ IF fullscreen
       THEN /\ fullscreen' = FALSE
            /\ pc' = pc
       ELSE /\ fullscreen' = fullscreen
            /\ pc' = "terminated"

\* zoom_in that changes the level and does not draw the page again
zoom_in_silent ==
    /\ UNCHANGED <<pc, pdf_doc, current_page_index, total_pages, fullscreen>>
    /\ dialog' = "none"
    /\ zoom_level' = Min(zoom_level + 10, 300)
    /\ UNCHANGED <<title, canvas, placed>>
    /\ painted' = FALSE

\* zoom_in without the cap
zoom_in_uncapped ==
    /\ UNCHANGED <<pc, pdf_doc, current_page_index, total_pages, fullscreen>>
    /\ dialog' = "none"
    /\ zoom_level' = zoom_level + 10
    /\ show_page(current_page_index')

zoom_in ==
    /\ UNCHANGED <<pc, pdf_doc, current_page_index, total_pages, fullscreen>>
    /\ dialog' = "none"
    /\ zoom_level' = Min(zoom_level + 10, 300)
    /\ show_page(current_page_index')

\* zoom_out that draws the page again only when the level has changed
zoom_out_lazy ==
    /\ UNCHANGED <<pc, pdf_doc, current_page_index, total_pages, fullscreen>>
    /\ dialog' = "none"
    /\ zoom_level' = Max(zoom_level - 10, 50)
    /\ IF zoom_level' # zoom_level
       THEN show_page(current_page_index')
       ELSE /\ UNCHANGED <<title, canvas, placed>>
            /\ painted' = FALSE

zoom_out ==
    /\ UNCHANGED <<pc, pdf_doc, current_page_index, total_pages, fullscreen>>
    /\ dialog' = "none"
    /\ zoom_level' = Max(zoom_level - 10, 50)
    /\ show_page(current_page_index')

\* Closing the window: Tk's default WM_DELETE_WINDOW handler destroys it.
close_window ==
    /\ pc' = "terminated"
    /\ dialog' = "none"
    /\ painted' = FALSE
    /\ UNCHANGED <<pdf_doc, current_page_index, total_pages, zoom_level,
                   fullscreen, title, canvas, placed>>

\* ------------------------------------------------------------ events
\* what load_pdf met: fitz.open raising, the first render raising (there is
\* none for a document without pages), or neither
OpenOutcome(opens, pages, renders) ==
    IF ~opens THEN <<"open raises">>
    ELSE IF pages > 0 /\ ~renders THEN <<"render raises">>
    ELSE <<"opened">>

\* PDFReader(pdf_file) with a path on the command line.
StartWithPath ==
    /\ pc = "start"
    /\ \E opens \in BOOLEAN, pages \in 0..MaxPages, renders \in BOOLEAN :
          /\ load_pdf(opens, pages, renders)
          /\ Record("open", OpenOutcome(opens, pages, renders), 0)

\* PDFReader(None): the file dialog is shown.
StartWithDialog ==
    /\ pc = "start"
    /\ \E chosen \in BOOLEAN, opens \in BOOLEAN, pages \in 0..MaxPages, renders \in BOOLEAN :
          /\ open_pdf_dialog(chosen, opens, pages, renders)
          /\ Record(IF chosen THEN "open" ELSE "cancel",
                    IF chosen THEN OpenOutcome(opens, pages, renders) ELSE <<>>, 0)

NextPage     == pc = "ready" /\ show_next_page /\ Record("next", <<>>, 0)
PreviousPage == pc = "ready" /\ show_previous_page /\ Record("prev", <<>>, 0)
GoToPage     == pc = "ready" /\ \E raw \in Inputs : go_to_page(raw) /\ Record("goto", raw, 0)
ToggleFullscreen == pc = "ready" /\ toggle_fullscreen /\ Record("toggle", <<>>, 0)
Escape       == pc = "ready" /\ exit_fullscreen /\ Record("escape", <<>>, 0)
ZoomIn       == pc = "ready" /\ zoom_in /\ Record("zoom_in", <<>>, 0)
ZoomOut      == pc = "ready" /\ zoom_out /\ Record("zoom_out", <<>>, 0)
CloseWindow  == pc = "ready" /\ close_window /\ Record("close", <<>>, 0)

Next ==
    \/ StartWithPath
    \/ StartWithDialog
    \/ NextPage
    \/ PreviousPage
    \/ GoToPage
    \/ ToggleFullscreen
    \/ Escape
    \/ ZoomIn
    \/ ZoomOut
    \/ CloseWindow

Spec == Init /\ [][Next]_vars

\* show_page is a method of its own: a direct call with any index, in the
\* running window, on top of the handlers that call it.
CallShowPage ==
    /\ pc = "ready"
    /\ \E i \in (0 - 1)..MaxPages :
          /\ UNCHANGED <<pc, pdf_doc, current_page_index, total_pages, zoom_level, fullscreen>>
          /\ dialog' = "none"
          /\ show_page(i)
          /\ Record("show_page", <<>>, i)

\* The page entry is left out here: go_to_page reaches no page, zoom or window
\* mode that the buttons and keys do not reach.
NextApi ==
    \/ StartWithPath
    \/ StartWithDialog
    \/ NextPage
    \/ PreviousPage
    \/ ToggleFullscreen
    \/ Escape
    \/ ZoomIn
    \/ ZoomOut
    \/ CloseWindow
    \/ CallShowPage

SpecApi == Init /\ [][NextApi]_vars

\* The buttons, the entry and the zoom keys are bound (lines 30-53) before the
\* document is opened (lines 56-59): the handlers as they run when they are
\* invoked while no document has been loaded yet.
EarlyNextPage     == pc = "start" /\ show_next_page /\ Record("next", <<>>, 0)
EarlyPreviousPage == pc = "start" /\ show_previous_page /\ Record("prev", <<>>, 0)
EarlyGoToPage     == pc = "start" /\ \E raw \in Inputs : go_to_page(raw) /\ Record("goto", raw, 0)
EarlyZoomIn       == pc = "start" /\ zoom_in /\ Record("zoom_in", <<>>, 0)
EarlyZoomOut      == pc = "start" /\ zoom_out /\ Record("zoom_out", <<>>, 0)

NextEarly ==
    \/ Next
    \/ EarlyNextPage
    \/ EarlyPreviousPage
    \/ EarlyGoToPage
    \/ EarlyZoomIn
    \/ EarlyZoomOut

SpecEarly == Init /\ [][NextEarly]_vars

TypeOK ==
    /\ pc \in {"start", "ready", "terminated"}
    /\ pdf_doc \in {"None", "Document"}
    /\ current_page_index \in 0..MaxPages
    /\ total_pages \in 0..MaxPages
    /\ fullscreen \in BOOLEAN
    /\ dialog \in {"none", "Error", "Invalid Page", "Invalid Input"}
    /\ painted \in BOOLEAN

\* ------------------------------------------------------------ properties
Loaded == pdf_doc # "None"

\* the latest handler left page, zoom, fullscreen, title and canvas alone
ViewerUnchanged ==
    /\ current_page_index = last.pre.idx
    /\ zoom_level = last.pre.zoom
    /\ fullscreen = last.pre.fs
    /\ title = last.pre.title
    /\ canvas = last.pre.canvas
    /\ placed = last.pre.placed

LastInput == ParseInt(last.raw)

\* C1: in every reachable state either no document is loaded or
\* 0 <= current_page_index < total_pages, also for a document of 0 pages.
C1_IndexAlwaysValid ==
    Loaded => (0 <= current_page_index /\ current_page_index < total_pages)

\* C2 as stated: show_page(i) with a valid i, called by itself, sets
\* current_page_index to i and yields a title with i+1 and the page count.
C2_ShowPageSetsIndex ==
    (last.op = "show_page" /\ Loaded /\ 0 <= last.index /\ last.index < total_pages)
        => /\ current_page_index = last.index
           /\ title # DefaultTitle
           /\ title[1] = last.index + 1
           /\ title[2] = total_pages

\* C2 amended: show_page(i) with a valid i paints page i and yields a title
\* with i+1 and the page count, and leaves current_page_index as it was; after
\* a paging handler that painted, the title shows current_page_index + 1.
C2_ShowPageRendersOnly ==
    /\ (last.op = "show_page" /\ Loaded /\ 0 <= last.index /\ last.index < total_pages)
        => /\ current_page_index = last.pre.idx
           /\ painted
           /\ canvas = <<last.index, zoom_level>>
           /\ title # DefaultTitle
           /\ title[1] = last.index + 1
           /\ title[2] = total_pages
    /\ (last.op \in {"next", "prev", "goto"} /\ painted)
        => /\ title # DefaultTitle
           /\ title[1] = current_page_index + 1
           /\ title[2] = total_pages

C2_Witness ==
    /\ last.op = "show_page"
    /\ Loaded
    /\ 0 <= last.index /\ last.index < total_pages
    /\ last.index # current_page_index
    /\ painted

\* C3: show_next_page on the last page and show_previous_page on page 0 change
\* nothing: same index (no wraparound), nothing painted, same title.
C3_EdgeNoOp ==
    (\/ last.op = "next" /\ last.pre.idx = total_pages - 1
     \/ last.op = "prev" /\ last.pre.idx = 0)
        => /\ ViewerUnchanged
           /\ ~painted
           /\ dialog = "none"
           /\ pc = "ready"

C3_Witness ==
    /\ last.op = "next"
    /\ total_pages >= 2
    /\ last.pre.idx = total_pages - 1
    /\ current_page_index = total_pages - 1

\* C4: k show_next_page calls in a row, starting on page 0 right after a
\* document of n >= 1 pages was opened, end on page min(k, n-1); from any page
\* p they end on min(p + k, n-1).
C4_NextRun ==
    (run.op = "next" /\ total_pages >= 1)
        => /\ current_page_index =
                 (IF run.start.idx + run.k <= total_pages - 1
                  THEN run.start.idx + run.k ELSE total_pages - 1)
           /\ run.fresh => run.start.idx = 0

C4_Witness ==
    /\ run.op = "next"
    /\ run.fresh
    /\ total_pages = 5
    /\ run.k = 5
    /\ current_page_index = 4

\* C5: go_to_page with an input that parses to a number outside
\* 1..total_pages shows the "Invalid Page" warning and changes nothing.
C5_OutOfRange ==
    (last.op = "goto" /\ LastInput.ok /\ (LastInput.val < 1 \/ LastInput.val > total_pages))
        => /\ dialog = "Invalid Page"
           /\ ViewerUnchanged
           /\ ~painted
           /\ pc = "ready"

C5_Witness ==
    /\ last.op = "goto"
    /\ total_pages >= 1
    /\ last.raw = DecStr(total_pages + 1)
    /\ dialog = "Invalid Page"

\* C6: go_to_page with an input that is not an integer shows the "Invalid
\* Input" warning, changes nothing and keeps the session running; a
\* go_to_page with a valid input right after it navigates.
C6_NotANumber ==
    /\ (last.op = "goto" /\ ~LastInput.ok)
        => /\ dialog = "Invalid Input"
           /\ ViewerUnchanged
           /\ ~painted
           /\ pc = "ready"
    /\ (last.op = "goto" /\ last.pre.dialog = "Invalid Input"
          /\ LastInput.ok /\ 1 <= LastInput.val /\ LastInput.val <= total_pages)
        => /\ current_page_index = LastInput.val - 1
           /\ painted

C6_Witness ==
    /\ last.op = "goto"
    /\ last.pre.dialog = "Invalid Input"
    /\ LastInput.ok
    /\ current_page_index = LastInput.val - 1
    /\ current_page_index # last.pre.idx
    /\ painted

\* C7: go_to_page with an input that parses to n in 1..total_pages sets
\* current_page_index to n-1, paints that page, titles it n/total_pages and
\* shows no warning.
C7_ValidJump ==
    (last.op = "goto" /\ LastInput.ok /\ 1 <= LastInput.val /\ LastInput.val <= total_pages)
        => /\ current_page_index = LastInput.val - 1
           /\ painted
           /\ canvas = <<LastInput.val - 1, zoom_level>>
           /\ title = <<LastInput.val, total_pages, zoom_level>>
           /\ dialog = "none"
           /\ zoom_level = last.pre.zoom
           /\ fullscreen = last.pre.fs

C7_Witness ==
    /\ last.op = "goto"
    /\ LastInput.ok
    /\ total_pages >= 3
    /\ LastInput.val = total_pages
    /\ last.pre.idx = 0
    /\ current_page_index = total_pages - 1

\* C8: zoom_level is always within 50..300; zoom_in adds 10 and zoom_out takes
\* 10 off, stopping at the ends, so 30 zoom_in calls from 100 end at 300 and 30
\* zoom_out calls from 100 end at 50.
C8_ZoomBounded ==
    /\ 50 <= zoom_level /\ zoom_level <= 300
    /\ last.op = "zoom_in"
        => zoom_level = (IF last.pre.zoom + 10 <= 300 THEN last.pre.zoom + 10 ELSE 300)
    /\ last.op = "zoom_out"
        => zoom_level = (IF last.pre.zoom - 10 >= 50 THEN last.pre.zoom - 10 ELSE 50)
    /\ run.op = "zoom_in"
        => zoom_level = (IF run.start.zoom + 10 * run.k <= 300
                         THEN run.start.zoom + 10 * run.k ELSE 300)
    /\ run.op = "zoom_out"
        => zoom_level = (IF run.start.zoom - 10 * run.k >= 50
                         THEN run.start.zoom - 10 * run.k ELSE 50)
    /\ (run.op = "zoom_in" /\ run.start.zoom = 100 /\ run.k = 30) => zoom_level = 300
    /\ (run.op = "zoom_out" /\ run.start.zoom = 100 /\ run.k = 30) => zoom_level = 50

C8_Witness ==
    /\ run.op = "zoom_in"
    /\ run.start.zoom = 100
    /\ run.k = 30
    /\ zoom_level = 300

\* C9: toggle_fullscreen flips the fullscreen attribute, two calls in a row
\* restore it, and neither call changes the page index or the zoom level.
C9_ToggleTwice ==
    /\ last.op = "toggle"
        => /\ fullscreen = ~last.pre.fs
           /\ current_page_index = last.pre.idx
           /\ zoom_level = last.pre.zoom
           /\ pc = "ready"
    /\ (run.op = "toggle" /\ run.k = 2)
        => /\ fullscreen = run.start.fs
           /\ current_page_index = run.start.idx
           /\ zoom_level = run.start.zoom

C9_Witness ==
    /\ run.op = "toggle"
    /\ run.k = 2
    /\ run.start.fs
    /\ fullscreen

\* C10: Escape in fullscreen leaves fullscreen and keeps the session, page and
\* zoom; Escape outside fullscreen ends the session; so from fullscreen it
\* takes two Escapes to end the session.
C10_Escape ==
    /\ (last.op = "escape" /\ last.pre.fs)
        => /\ ~fullscreen
           /\ pc = "ready"
           /\ current_page_index = last.pre.idx
           /\ zoom_level = last.pre.zoom
    /\ (last.op = "escape" /\ ~last.pre.fs) => pc = "terminated"
    /\ (run.op = "escape" /\ run.start.fs /\ run.k = 1) => pc = "ready"
    /\ (run.op = "escape" /\ run.start.fs /\ run.k = 2) => pc = "terminated"

C10_Witness ==
    /\ run.op = "escape"
    /\ run.start.fs
    /\ run.k = 2
    /\ pc = "terminated"

\* the latest start-up step was a load_pdf that met an exception
OpenFailed ==
    /\ last.op = "open"
    /\ last.raw \in {<<"open raises">>, <<"render raises">>}

\* C11: when fitz.open or the first render raises, the error box is shown and
\* the session ends: the window never becomes ready and no step follows.
C11_OpenFailureIsFatal ==
    /\ [](OpenFailed => (dialog = "Error" /\ pc = "terminated"))
    /\ [][~OpenFailed]_vars

C11_Witness ==
    /\ OpenFailed
    /\ last.raw = <<"render raises">>
    /\ Loaded
    /\ total_pages >= 1
    /\ dialog = "Error"
    /\ pc = "terminated"

\* C12 as stated: every way out (cancelled file dialog, closed window, Escape
\* outside fullscreen, failed open) shows a message before the end.
C12_EveryExitShowsMessage ==
    pc = "terminated" => dialog # "none"

\* C12 amended: the session ends by a failed open, a cancelled file dialog, a
\* closed window or Escape outside fullscreen; only the failed open shows a
\* message (the error box), the other three end without any message.
C12_OnlyFailedOpenShowsMessage ==
    pc = "terminated"
        => /\ last.op \in {"open", "cancel", "close", "escape"}
           /\ last.op = "open" => (OpenFailed /\ dialog = "Error")
           /\ last.op \in {"cancel", "close", "escape"} => dialog = "none"
           /\ last.op = "escape" => ~last.pre.fs

C12_Witness ==
    /\ pc = "terminated"
    /\ last.op = "cancel"
    /\ dialog = "none"

Slack(axis) == placed.surface[axis] - placed.frame[axis]

\* C14 as stated: the frame is placed at (surface - frame) / 2 per axis with
\* the division rounding toward zero, also for a negative odd difference.
C14_OffsetTruncates ==
    placed # NotPlaced
        => \A axis \in 1..2 :
              IF Slack(axis) >= 0
              THEN 2 * placed.at[axis] <= Slack(axis) /\ Slack(axis) <= 2 * placed.at[axis] + 1
              ELSE 2 * placed.at[axis] - 1 <= Slack(axis) /\ Slack(axis) <= 2 * placed.at[axis]

\* C14 amended: the frame is placed at (surface - frame) / 2 per axis with the
\* division rounding down (toward minus infinity), so a negative odd
\* difference d gives (d - 1) / 2.
C14_OffsetFloors ==
    /\ placed # NotPlaced
        => \A axis \in 1..2 :
              /\ 2 * placed.at[axis] <= Slack(axis)
              /\ Slack(axis) <= 2 * placed.at[axis] + 1
    /\ painted
        => /\ placed # NotPlaced
           /\ placed.frame = FrameSize(zoom_level)
           /\ placed.surface = CanvasSize(last.pre.pc, fullscreen)

C14_Witness ==
    /\ painted
    /\ \E axis \in 1..2 :
          /\ Slack(axis) < 0
          /\ (0 - Slack(axis)) % 2 = 1
          /\ Slack(3 - axis) >= 0
          /\ 2 * placed.at[axis] = Slack(axis) - 1

\* C15: show_page with an index below 0 or not below total_pages changes
\* nothing: index, zoom, canvas and title stay, and no dialog is shown.
C15_OutOfRangeIgnored ==
    (last.op = "show_page" /\ (last.index < 0 \/ last.index >= total_pages))
        => /\ ViewerUnchanged
           /\ ~painted
           /\ dialog = "none"
           /\ pc = "ready"

C15_Witness ==
    /\ last.op = "show_page"
    /\ total_pages >= 1
    /\ last.index = total_pages
    /\ title # DefaultTitle
    /\ ~painted

\* C16: zoom_in and zoom_out keep the page index and, with a document of at
\* least one page, draw the current page again and title it with the same page
\* number and the new zoom level, also when the level was already 300 or 50.
C16_ZoomRedraws ==
    (last.op \in {"zoom_in", "zoom_out"})
        => /\ current_page_index = last.pre.idx
           /\ (Loaded /\ total_pages >= 1)
                => /\ painted
                   /\ canvas = <<current_page_index, zoom_level>>
                   /\ title = <<last.pre.idx + 1, total_pages, zoom_level>>

C16_Witness ==
    /\ last.op = "zoom_out"
    /\ last.pre.zoom = 50
    /\ zoom_level = 50
    /\ total_pages >= 2
    /\ current_page_index >= 1
    /\ painted

PagingOps == {"next", "prev", "goto", "zoom_in", "zoom_out", "toggle"}

\* one step of the session
C17_Step ==
    /\ pc # "terminated"
    /\ pc = "start"
        => \/ /\ pc' = "ready"
              /\ last'.op = "open"
              /\ ~OpenFailed'
              /\ pdf_doc' = "Document"
           \/ /\ pc' = "terminated"
              /\ (last'.op = "cancel" \/ OpenFailed')
    /\ pc = "ready"
        => /\ pdf_doc' = pdf_doc
           /\ total_pages' = total_pages
           /\ \/ /\ pc' = "ready"
                 /\ last'.op \in PagingOps \cup {"escape"}
                 /\ last'.op = "escape" => fullscreen
              \/ /\ pc' = "terminated"
                 /\ \/ last'.op = "close"
                    \/ last'.op = "escape" /\ ~fullscreen

\* C17: the session goes from no document to ready by a successful open, from
\* no document or ready to terminated by cancel, failed open, window close or
\* Escape outside fullscreen, and otherwise stays ready with the same document
\* and page count; nothing leaves terminated.
C17_StateMachine == [][C17_Step]_vars

C17_Witness ==
    /\ pc = "terminated"
    /\ last.op = "close"
    /\ last.pre.pc = "ready"
    /\ Loaded
    /\ current_page_index >= 1

\* C18: with a document of at least one page in the running window, the title
\* shows current_page_index + 1, total_pages and zoom_level after every handler.
C18_TitleFollowsState ==
    (Loaded /\ total_pages >= 1 /\ (pc = "ready" \/ last.op \in {"close", "escape"}))
        => /\ title = <<current_page_index + 1, total_pages, zoom_level>>
           /\ canvas = <<current_page_index, zoom_level>>

C18_Witness ==
    /\ pc = "ready"
    /\ last.op = "zoom_in"
    /\ current_page_index >= 1
    /\ zoom_level = 110
    /\ title = <<current_page_index + 1, total_pages, 110>>

\* C19: the paging handlers never change zoom level or fullscreen, the
\* fullscreen handlers never change page index or zoom level, and the zoom
\* handlers never change fullscreen.
C19_Independent ==
    /\ last.op \in {"next", "prev", "goto"}
        => (zoom_level = last.pre.zoom /\ fullscreen = last.pre.fs)
    /\ last.op \in {"toggle", "escape"}
        => (current_page_index = last.pre.idx /\ zoom_level = last.pre.zoom)
    /\ last.op \in {"zoom_in", "zoom_out"}
        => fullscreen = last.pre.fs

C19_Witness ==
    /\ last.op = "toggle"
    /\ fullscreen
    /\ zoom_level # 100
    /\ current_page_index >= 1
====
